---- MODULE Spec2Model ----
(***************************************************************************)
(* Boss Encyclopedia API (src/main.py): the catalog collections game, boss *)
(* and strategy, the moderation collection ingest_queue, and the request   *)
(* handlers that write them.  Every handler is an operator of the store it *)
(* runs on and of its request; it yields the store after the request and   *)
(* the response.  One action per handler applies it to the current store   *)
(* (Spec).  SpecRace runs the three ingestion handlers of concurrent       *)
(* clients one store call at a time; SpecCrash runs approvals that may     *)
(* stop between two store calls and be started again.                      *)
(***************************************************************************)
EXTENDS Integers, Sequences, FiniteSets, TLC

VARIABLES db,          \* the document store: one sequence of documents per collection, in natural (insertion) order
          db_is_None,  \* TRUE when the store handle imported from database is None
          ret,         \* the response to the last request
          nreq,        \* number of requests served so far
          inflight     \* per client, the ingestion request it has in progress between two store calls

vars == <<db, db_is_None, ret, nreq, inflight>>

\* Bound of the exploration: requests served in one behaviour.
MaxRequests == 3

\* Bound of the explorations that go store call by store call: requests started in one behaviour.
MaxRaceRequests == 2

\* The clients whose requests the server runs concurrently, one worker thread each.
Clients == {"a", "b"}

(***************************************************************************)
(* Values                                                                  *)
(***************************************************************************)
\* Python's None in a string-typed field.
None == "<None>"

\* Python truthiness of an Optional[str]: None and "" are falsy.
Truthy(v) == v # None /\ v # ""

\* An id string is a 24-digit hex text or something else.  hex is the
\* ObjectId the text denotes (0: the text is no ObjectId), upper tells
\* whether the text is written with upper-case digits: ObjectId() accepts
\* both spellings, str() always yields the lower-case one.
str(oid) == [hex |-> oid, upper |-> FALSE]
Upper(oid) == [hex |-> oid, upper |-> TRUE]
MalformedId == [hex |-> 0, upper |-> FALSE]
\* A well-formed id string that no insert of the explored behaviours generates.
UnknownId == [hex |-> 999, upper |-> FALSE]

\* bson.ObjectId(s): defined when s is well formed, raises otherwise.
InvalidId(s) == s.hex = 0
ObjectId(s) == s.hex

\* str() of a pydantic HttpUrl: scheme and host come out in lower case.
UrlStr(u) ==
    CASE u = "HTTPS://WWW.YOUTUBE.COM/embed/sample123" -> "https://www.youtube.com/embed/sample123"
      [] OTHER -> u

\* Field(min_length=1) of GameCreate.title and BossCreate.name.
MinLengthOk(s) == s # ""

(***************************************************************************)
(* The store                                                               *)
(***************************************************************************)
EmptyStore == [game |-> <<>>, boss |-> <<>>, strategy |-> <<>>, ingest_queue |-> <<>>]

\* The absent document (find_one returning None).
Absent == [_id |-> 0]
Found(doc) == doc._id # 0

\* The ObjectId the store generates for the next inserted document.
NextOid(d) == Len(d.game) + Len(d.boss) + Len(d.strategy) + Len(d.ingest_queue) + 1

\* database.create_document(collection, data): inserts, returns the new id as a string.
create_document(d, coll, data) ==
    LET oid == NextOid(d)
    IN [db |-> [d EXCEPT ![coll] = Append(@, [_id |-> oid] @@ data)], id |-> str(oid)]

\* collection.find_one(filter): the first document, in natural order, that matches.
FindOne(docs, Match(_)) ==
    IF \E i \in 1..Len(docs) : Match(docs[i])
    THEN docs[CHOOSE i \in 1..Len(docs) : Match(docs[i]) /\ \A j \in 1..(i - 1) : ~Match(docs[j])]
    ELSE Absent

\* collection.count_documents(filter, limit=1)
CountLimit1(docs, Match(_)) == IF \E i \in 1..Len(docs) : Match(docs[i]) THEN 1 ELSE 0

FindById(docs, oid) == LET M(x) == x._id = oid IN FindOne(docs, M)

\* serialize_doc: the public id of a document.
serialize_doc(doc) == str(doc._id)

(***************************************************************************)
(* Responses                                                               *)
(***************************************************************************)
\* A handler's outcome: the store it leaves and the response (status code and
\* the public ids of the documents in the body).
Respond(d, op, code, ids) == [db |-> d, ret |-> [op |-> op, code |-> code, ids |-> ids]]
HTTPException(d, op, code) == Respond(d, op, code, <<>>)
NoResponse == [op |-> "none", code |-> 0, ids |-> <<>>]

(***************************************************************************)
(* Request models                                                          *)
(***************************************************************************)
GameCreate(title, platform, cover_image, description) ==
    [title |-> title, platform |-> platform, cover_image |-> cover_image, description |-> description]

BossCreate(game_id, name, image, summary, difficulty) ==
    [game_id |-> game_id, name |-> name, image |-> image, summary |-> summary, difficulty |-> difficulty]

StrategyCreate(boss_id, title, steps, recommended_level, video_url) ==
    [boss_id |-> boss_id, title |-> title, steps |-> steps,
     recommended_level |-> recommended_level, video_url |-> video_url]

QueueItem(source, game_title, boss_name, strategy_title, steps, video_url, summary, difficulty, status) ==
    [source |-> source, game_title |-> game_title, boss_name |-> boss_name,
     strategy_title |-> strategy_title, steps |-> steps, recommended_level |-> None,
     video_url |-> video_url, image |-> None, summary |-> summary,
     difficulty |-> difficulty, status |-> status]

(***************************************************************************)
(* Games, bosses, strategies: direct creation                              *)
(***************************************************************************)
create_game(d, game) ==
    LET c == create_document(d, "game", game)
    IN Respond(c.db, "create_game", 200, <<c.id>>)

\* create_boss without the lookup of the Game.
create_boss_unchecked(d, boss) ==
    IF InvalidId(boss.game_id) THEN HTTPException(d, "create_boss", 400)
    ELSE LET c == create_document(d, "boss", boss)
         IN Respond(c.db, "create_boss", 200, <<c.id>>)

create_boss(d, boss) ==
    IF InvalidId(boss.game_id) THEN HTTPException(d, "create_boss", 400)
    ELSE LET gid == ObjectId(boss.game_id)
             M(g) == g._id = gid
         IN IF CountLimit1(d.game, M) = 0 THEN HTTPException(d, "create_boss", 404)
            ELSE LET c == create_document(d, "boss", boss)
                 IN Respond(c.db, "create_boss", 200, <<c.id>>)

\* StrategyDedupe without the "if strategy.video_url" guard.
StrategyDedupeAnyVideo(d, strategy) ==
    LET M(s) == s.boss_id = strategy.boss_id /\ s.video_url = strategy.video_url
    IN FindOne(d.strategy, M)

\* The dedupe lookup of create_strategy.
StrategyDedupe(d, strategy) ==
    IF Truthy(strategy.video_url)
    THEN LET M(s) == s.boss_id = strategy.boss_id /\ s.video_url = strategy.video_url
         IN FindOne(d.strategy, M)
    ELSE Absent

create_strategy(d, strategy) ==
    IF InvalidId(strategy.boss_id) THEN HTTPException(d, "create_strategy", 400)
    ELSE LET bid == ObjectId(strategy.boss_id)
             M(b) == b._id = bid
         IN IF CountLimit1(d.boss, M) = 0 THEN HTTPException(d, "create_strategy", 404)
            ELSE LET existing == StrategyDedupe(d, strategy)
                 IN IF Found(existing)
                    THEN Respond(d, "create_strategy", 200, <<serialize_doc(existing)>>)
                    ELSE LET c == create_document(d, "strategy", strategy)
                         IN Respond(c.db, "create_strategy", 200, <<c.id>>)

(***************************************************************************)
(* Resolve-or-create, as ingest_youtube, ingest_bulk and mod_approve do it *)
(***************************************************************************)
\* ensure_game writing the request's fields over the Game it found.
ensure_game_overwrite(d, game_create) ==
    LET M(g) == g.title = game_create.title
        game == FindOne(d.game, M)
    IN IF Found(game)
       THEN LET d2 == [d EXCEPT !.game = [i \in 1..Len(@) |->
                          IF @[i]._id = game._id THEN [_id |-> game._id] @@ game_create ELSE @[i]]]
            IN [db |-> d2, doc |-> FindById(d2.game, game._id), raised |-> FALSE]
       ELSE IF ~MinLengthOk(game_create.title) THEN [db |-> d, doc |-> Absent, raised |-> TRUE]
       ELSE LET c == create_document(d, "game", game_create)
            IN [db |-> c.db, doc |-> FindById(c.db.game, ObjectId(c.id)), raised |-> FALSE]

\* "ensure game": the first Game with the title, or a new one built from
\* game_create.  raised: GameCreate rejected the title (pydantic
\* ValidationError), nothing was written.
ensure_game(d, game_create) ==
    LET M(g) == g.title = game_create.title
        game == FindOne(d.game, M)
    IN IF Found(game) THEN [db |-> d, doc |-> game, raised |-> FALSE]
       ELSE IF ~MinLengthOk(game_create.title) THEN [db |-> d, doc |-> Absent, raised |-> TRUE]
       ELSE LET c == create_document(d, "game", game_create)
            IN [db |-> c.db, doc |-> FindById(c.db.game, ObjectId(c.id)), raised |-> FALSE]

\* ensure_boss without the lookup: a new Boss on every call.
ensure_boss_no_lookup(d, boss_create) ==
    IF ~MinLengthOk(boss_create.name) THEN [db |-> d, doc |-> Absent, raised |-> TRUE]
    ELSE LET c == create_document(d, "boss", boss_create)
         IN [db |-> c.db, doc |-> FindById(c.db.boss, ObjectId(c.id)), raised |-> FALSE]

\* "ensure boss": the first Boss with (name, game_id), or a new one.
ensure_boss(d, boss_create) ==
    LET M(b) == b.name = boss_create.name /\ b.game_id = boss_create.game_id
        boss == FindOne(d.boss, M)
    IN IF Found(boss) THEN [db |-> d, doc |-> boss, raised |-> FALSE]
       ELSE IF ~MinLengthOk(boss_create.name) THEN [db |-> d, doc |-> Absent, raised |-> TRUE]
       ELSE LET c == create_document(d, "boss", boss_create)
            IN [db |-> c.db, doc |-> FindById(c.db.boss, ObjectId(c.id)), raised |-> FALSE]

\* count_documents({"boss_id": boss_id, "video_url": video_url}, limit=1)
CountStrategy(d, boss_id, video_url) ==
    LET M(s) == s.boss_id = boss_id /\ s.video_url = video_url
    IN CountLimit1(d.strategy, M)

(***************************************************************************)
(* ingest_demo                                                             *)
(***************************************************************************)
DemoTitle == "Elden Ring"

DemoGame == GameCreate(DemoTitle, "PC/PS5/Xbox",
                "https://images.igdb.com/igdb/image/upload/t_cover_big/co4jni.jpg",
                "Open-world action RPG by FromSoftware featuring challenging boss fights.")

\* The three bosses of the demo catalog, each with the steps and the video of its strategy.
DemoBosses == <<
    [name |-> "Margit, the Fell Omen",
     image |-> "https://static.wikia.nocookie.net/eldenring/images/4/4b/Margit_the_Fell_Omen.jpg",
     summary |-> "Gatekeeper of Stormveil Castle with punishing combos and holy daggers.",
     difficulty |-> "Hard",
     steps |-> <<"Summon Spirit Ashes to draw aggro.", "Bait the dagger throw then roll forward.",
                 "Punish slow hammer slam with 1-2 hits.">>,
     video |-> "https://www.youtube.com/embed/IfZk96F6eAQ"],
    [name |-> "Godrick the Grafted",
     image |-> "https://static.wikia.nocookie.net/eldenring/images/4/41/Godrick_the_Grafted.jpg",
     summary |-> "Demigod who commands storm and grafted limbs.",
     difficulty |-> "Hard",
     steps |-> <<"Stay mid-range to bait whirlwind.",
                 "In phase 2, avoid dragon flame then circle to his left.",
                 "Use bleed or frost for faster stagger.">>,
     video |-> "https://www.youtube.com/embed/Goe7bD8Jo1Q"],
    [name |-> "Malenia, Blade of Miquella",
     image |-> "https://static.wikia.nocookie.net/eldenring/images/a/aa/Malenia_Blade_of_Miquella.jpg",
     summary |-> "Infamous duel with lifesteal and Waterfowl Dance.",
     difficulty |-> "Legendary",
     steps |-> <<"Use lightweight roll setup for iframes.",
                 "When she hops, sprint away to dodge Waterfowl Dance.",
                 "Inflict Scarlet Rot or Bleed to wear her down.">>,
     video |-> "https://www.youtube.com/embed/Hgfbm9lY0AU"] >>

\* DemoPopulated looking for another spelling of the title.
DemoPopulatedOtherTitle(d) ==
    LET M(g) == g.title = "Elden ring" IN CountLimit1(d.game, M) > 0

\* "If already populated, skip": the guard of ingest_demo.
DemoPopulated(d) ==
    LET M(g) == g.title = DemoTitle IN CountLimit1(d.game, M) > 0

\* The loop over the demo bosses: insert the Boss, then its Strategy unless
\* one with the same (boss_id, video_url) is stored.
RECURSIVE DemoLoop(_, _, _)
DemoLoop(d, game_id, bosses) ==
    IF bosses = <<>> THEN d
    ELSE LET b == Head(bosses)
             bdoc == BossCreate(str(ObjectId(game_id)), b.name, b.image, b.summary, b.difficulty)
             cb == create_document(d, "boss", bdoc)
             sdoc == StrategyCreate(str(ObjectId(cb.id)), "How to beat " \o b.name, b.steps, "80+", b.video)
             d2 == IF CountStrategy(cb.db, sdoc.boss_id, sdoc.video_url) = 0
                   THEN create_document(cb.db, "strategy", sdoc).db
                   ELSE cb.db
         IN DemoLoop(d2, game_id, Tail(bosses))

ingest_demo(d) ==
    IF DemoPopulated(d)
    THEN LET M(g) == g.title = DemoTitle
         IN Respond(d, "ingest_demo", 200, <<serialize_doc(FindOne(d.game, M))>>)
    ELSE LET c == create_document(d, "game", DemoGame)
             d2 == DemoLoop(c.db, c.id, DemoBosses)
         IN Respond(d2, "ingest_demo", 200, <<serialize_doc(FindById(d2.game, ObjectId(c.id)))>>)

(***************************************************************************)
(* ingest_youtube                                                          *)
(***************************************************************************)
\* YoutubeExisting finding nothing: the lookup left out.
YoutubeExistingNoLookup(d, strategy) == Absent

\* The dedupe lookup of ingest_youtube: strategy.video_url is already str(data.video_url).
YoutubeExisting(d, strategy) ==
    LET M(s) == s.boss_id = strategy.boss_id /\ s.video_url = strategy.video_url
    IN FindOne(d.strategy, M)

ingest_youtube(d, data) ==
    LET g == ensure_game(d, GameCreate(data.game_title, None, None, None))
        game_id_str == str(g.doc._id)
        b == ensure_boss(g.db, BossCreate(game_id_str, data.boss_name, data.image, data.summary, data.difficulty))
        strategy == StrategyCreate(str(b.doc._id),
                        IF Truthy(data.strategy_title) THEN data.strategy_title
                        ELSE "Video Guide: " \o data.boss_name,
                        data.steps, data.recommended_level, UrlStr(data.video_url))
        existing == YoutubeExisting(b.db, strategy)
    IN IF Found(existing)
       THEN Respond(b.db, "ingest_youtube", 200, <<serialize_doc(existing)>>)
       ELSE LET c == create_document(b.db, "strategy", strategy)
            IN Respond(c.db, "ingest_youtube", 200, <<c.id>>)

(***************************************************************************)
(* ingest_bulk                                                             *)
(***************************************************************************)
\* BulkStrategy without the count of the stored strategies.
BulkStrategyNoDedupe(d, boss, s) ==
    IF ~InvalidId(s.boss_id)
    THEN create_document(d, "strategy", s).db
    ELSE create_document(d, "strategy",
             StrategyCreate(str(boss._id), s.title, s.steps, s.recommended_level, s.video_url)).db

\* One strategy entry of a bulk boss: with a well-formed boss_id it is stored
\* as sent, otherwise it is linked to the boss resolved for the entry; either
\* way it is skipped when a Strategy with its (boss_id, video_url) is stored.
BulkStrategy(d, boss, s) ==
    IF ~InvalidId(s.boss_id)
    THEN IF Truthy(s.video_url) /\ CountStrategy(d, s.boss_id, s.video_url) > 0 THEN d
         ELSE create_document(d, "strategy", s).db
    ELSE LET link_boss_id == str(boss._id)
         IN IF Truthy(s.video_url) /\ CountStrategy(d, link_boss_id, s.video_url) > 0 THEN d
            ELSE create_document(d, "strategy",
                     StrategyCreate(link_boss_id, s.title, s.steps, s.recommended_level, s.video_url)).db

RECURSIVE BulkStrategies(_, _, _)
BulkStrategies(d, boss, strategies) ==
    IF strategies = <<>> THEN d
    ELSE BulkStrategies(BulkStrategy(d, boss, Head(strategies)), boss, Tail(strategies))

\* The loop over payload.bosses; created_bosses collects the serialized bosses.
\* A BossCreate that rejects the name aborts the request where it stands.
RECURSIVE BulkBosses(_, _, _, _)
BulkBosses(d, game_id_str, bosses, created_bosses) ==
    IF bosses = <<>> THEN [db |-> d, created_bosses |-> created_bosses, raised |-> FALSE]
    ELSE LET b == Head(bosses)
             e == ensure_boss(d, BossCreate(game_id_str, b.name, b.image, b.summary, b.difficulty))
         IN IF e.raised THEN [db |-> e.db, created_bosses |-> created_bosses, raised |-> TRUE]
            ELSE BulkBosses(BulkStrategies(e.db, e.doc, b.strategies), game_id_str, Tail(bosses),
                            Append(created_bosses, serialize_doc(e.doc)))

ingest_bulk(d, payload) ==
    LET g == ensure_game(d, GameCreate(payload.game_title, payload.platform,
                                       payload.cover_image, payload.description))
    IN IF g.raised THEN HTTPException(g.db, "ingest_bulk", 500)
       ELSE LET r == BulkBosses(g.db, str(g.doc._id), payload.bosses, <<>>)
            IN IF r.raised THEN HTTPException(r.db, "ingest_bulk", 500)
               ELSE Respond(r.db, "ingest_bulk", 200, <<serialize_doc(g.doc)>> \o r.created_bosses)

(***************************************************************************)
(* Moderation queue                                                        *)
(***************************************************************************)
\* QueueQuery scoped to the pending items.
QueueQueryPendingOnly(item, x) ==
    /\ x.source = item.source
    /\ x.game_title = item.game_title
    /\ x.boss_name = item.boss_name
    /\ Truthy(item.video_url) => x.video_url = item.video_url
    /\ x.status = "pending"

\* The dedupe query of mod_submit and scheduled_ingest: source, game_title and
\* boss_name, and video_url only when the submission has a truthy one.
QueueQuery(item, x) ==
    /\ x.source = item.source
    /\ x.game_title = item.game_title
    /\ x.boss_name = item.boss_name
    /\ Truthy(item.video_url) => x.video_url = item.video_url

\* QueueExisting matching the whole submission, its status included.
QueueExistingWholeItem(d, item) ==
    LET M(x) == QueueQuery(item, x) /\ x.status = item.status IN FindOne(d.ingest_queue, M)

QueueExisting(d, item) ==
    LET M(x) == QueueQuery(item, x) IN FindOne(d.ingest_queue, M)

\* item.model_dump() goes to the store as it came, status included.
mod_submit(d, item) ==
    LET existing == QueueExisting(d, item)
    IN IF Found(existing)
       THEN Respond(d, "mod_submit", 200, <<serialize_doc(existing)>>)
       ELSE LET c == create_document(d, "ingest_queue", item)
            IN Respond(c.db, "mod_submit", 200, <<c.id>>)

\* update_one({"_id": oid}, {"$set": {"status": status}})
UpdateStatus(d, oid, status) ==
    [db |-> [d EXCEPT !.ingest_queue =
                [i \in 1..Len(@) |-> IF @[i]._id = oid THEN [@[i] EXCEPT !.status = status] ELSE @[i]]],
     matched_count |-> Cardinality({i \in 1..Len(d.ingest_queue) : d.ingest_queue[i]._id = oid})]

\* ApproveStrategy without the lookup of a stored Strategy.
ApproveStrategyNoDedupe(d, item, boss) ==
    LET vid == item.video_url
    IN IF Truthy(vid)
       THEN create_document(d, "strategy",
                StrategyCreate(str(boss._id),
                    IF Truthy(item.strategy_title) THEN item.strategy_title
                    ELSE "Guide: " \o item.boss_name,
                    item.steps, item.recommended_level, vid)).db
       ELSE d

\* The strategy part of mod_approve: only for an item with a truthy
\* video_url, and only when no Strategy with (link_boss_id, vid) is stored.
ApproveStrategy(d, item, boss) ==
    LET vid == item.video_url
    IN IF Truthy(vid)
       THEN LET link_boss_id == str(boss._id)
                M(s) == s.boss_id = link_boss_id /\ s.video_url = vid
                exists == FindOne(d.strategy, M)
            IN IF ~Found(exists)
               THEN create_document(d, "strategy",
                        StrategyCreate(link_boss_id,
                            IF Truthy(item.strategy_title) THEN item.strategy_title
                            ELSE "Guide: " \o item.boss_name,
                            item.steps, item.recommended_level, vid)).db
               ELSE d
       ELSE d

mod_approve(d, item_id) ==
    IF InvalidId(item_id) THEN HTTPException(d, "mod_approve", 400)
    ELSE LET oid == ObjectId(item_id)
             item == FindById(d.ingest_queue, oid)
         IN IF ~Found(item) THEN HTTPException(d, "mod_approve", 404)
            ELSE LET g == ensure_game(d, GameCreate(item.game_title, None, None, None))
                 IN IF g.raised THEN HTTPException(g.db, "mod_approve", 500)
                    ELSE LET b == ensure_boss(g.db, BossCreate(str(g.doc._id), item.boss_name,
                                                  item.image, item.summary, item.difficulty))
                         IN IF b.raised THEN HTTPException(b.db, "mod_approve", 500)
                            ELSE LET d3 == ApproveStrategy(b.db, item, b.doc)
                                     u == UpdateStatus(d3, oid, "approved")
                                 IN Respond(u.db, "mod_approve", 200, <<str(oid)>>)

\* mod_reject updating only an item that is still pending.
mod_reject_pending_only(d, item_id) ==
    IF InvalidId(item_id) THEN HTTPException(d, "mod_reject", 400)
    ELSE LET oid == ObjectId(item_id)
             item == FindById(d.ingest_queue, oid)
         IN IF ~Found(item) \/ item.status # "pending" THEN HTTPException(d, "mod_reject", 404)
            ELSE Respond(UpdateStatus(d, oid, "rejected").db, "mod_reject", 200, <<str(oid)>>)

\* mod_reject without the matched_count check.
mod_reject_unchecked(d, item_id) ==
    IF InvalidId(item_id) THEN HTTPException(d, "mod_reject", 400)
    ELSE LET oid == ObjectId(item_id)
         IN Respond(UpdateStatus(d, oid, "rejected").db, "mod_reject", 200, <<str(oid)>>)

mod_reject(d, item_id) ==
    IF InvalidId(item_id) THEN HTTPException(d, "mod_reject", 400)
    ELSE LET oid == ObjectId(item_id)
             r == UpdateStatus(d, oid, "rejected")
         IN IF r.matched_count = 0 THEN HTTPException(d, "mod_reject", 404)
            ELSE Respond(r.db, "mod_reject", 200, <<str(oid)>>)

\* The two fixed samples of scheduled_ingest.
Samples == <<
    [QueueItem("youtube", "Elden Ring", "Radahn, Starscourge", "Bleed Build",
               <<"Use Rivers of Blood", "Stay on horseback">>,
               "https://www.youtube.com/embed/sample123", "Festival of Radahn fight", "Hard", "pending")
     EXCEPT !.image = None],
    [QueueItem("wiki", "Sekiro", "Genichiro Ashina", "Mikiri + Deflect",
               <<"Bait thrust for Mikiri", "Deflect bow combos">>,
               None, "Castle rooftop duel", "Hard", "pending")
     EXCEPT !.image = None] >>

RECURSIVE ScheduledLoop(_, _, _)
ScheduledLoop(d, samples, inserted) ==
    IF samples = <<>> THEN [db |-> d, inserted |-> inserted]
    ELSE LET s == Head(samples)
             existing == QueueExisting(d, s)
         IN IF Found(existing)
            THEN ScheduledLoop(d, Tail(samples), Append(inserted, serialize_doc(existing)))
            ELSE LET c == create_document(d, "ingest_queue", s)
                 IN ScheduledLoop(c.db, Tail(samples), Append(inserted, c.id))

scheduled_ingest(d) ==
    LET r == ScheduledLoop(d, Samples, <<>>)
    IN Respond(r.db, "scheduled_ingest", 200, r.inserted)

(***************************************************************************)
(* Requests the clients send                                               *)
(***************************************************************************)
SampleVideo == "https://www.youtube.com/embed/sample123"

\* Id strings a client presents for a collection: the id of each stored
\* document, the upper-case spelling of the first one, a well-formed id of
\* no document, and a text that is no ObjectId.
IdStrings(docs) ==
    {str(docs[i]._id) : i \in 1..Len(docs)} \cup {Upper(docs[i]._id) : i \in 1..Len(docs) \cap {1}}
        \cup {UnknownId, MalformedId}

GameRequests == {GameCreate("Elden Ring", None, None, None)}

BossRequests(d) == {BossCreate(g, "Margit, the Fell Omen", None, None, None) : g \in IdStrings(d.game)}

StrategyRequests(d) ==
    {StrategyCreate(b, "Cheese", <<>>, None, SampleVideo) : b \in IdStrings(d.boss)}
        \cup {StrategyCreate(str(d.boss[i]._id), "Cheese", <<>>, None, v) :
                 i \in 1..Len(d.boss) \cap {1}, v \in {None, ""}}

YoutubeIngest(game_title, boss_name, video_url) ==
    [game_title |-> game_title, boss_name |-> boss_name, video_url |-> video_url,
     strategy_title |-> None, steps |-> <<>>, recommended_level |-> None,
     image |-> None, summary |-> None, difficulty |-> None]

YoutubeRequests ==
    {YoutubeIngest("Elden Ring", "Margit, the Fell Omen", SampleVideo),
     YoutubeIngest("Sekiro", "Genichiro Ashina", SampleVideo),
     YoutubeIngest("Sekiro", "Genichiro Ashina", "HTTPS://WWW.YOUTUBE.COM/embed/sample123")}

BulkStrategyEntries(d) ==
    {StrategyCreate(b, "Bulk guide", <<>>, None, v) :
        b \in {MalformedId, UnknownId} \cup {str(d.boss[i]._id) : i \in 1..Len(d.boss) \cap {1}},
        v \in {None, SampleVideo}}

BulkBoss(name, strategies) ==
    [name |-> name, image |-> None, summary |-> None, difficulty |-> None, strategies |-> strategies]

BulkIngest(game_title, bosses) ==
    [game_title |-> game_title, platform |-> None, cover_image |-> None, description |-> None,
     bosses |-> bosses]

BulkRequests(d) ==
    {BulkIngest("", <<>>), BulkIngest("Elden Ring", <<BulkBoss("", <<>>)>>)}
        \cup {BulkIngest("Elden Ring", <<BulkBoss("Margit, the Fell Omen", <<s>>)>>) :
                 s \in BulkStrategyEntries(d)}
        \cup {BulkIngest("Elden Ring", <<BulkBoss("Margit, the Fell Omen", <<s, s>>)>>) :
                 s \in {StrategyCreate(MalformedId, "Bulk guide", <<>>, None, v) : v \in {None, SampleVideo}}}
        \cup {BulkIngest("Elden Ring",
                 <<BulkBoss("Margit, the Fell Omen", <<StrategyCreate(MalformedId, "Bulk guide", <<>>, None, None)>>),
                   BulkBoss("Genichiro Ashina", <<StrategyCreate(MalformedId, "Bulk guide", <<>>, None, SampleVideo)>>)>>)}

\* One submission and its variations in one field each: another source, an
\* empty boss_name, no video_url, an empty video_url, a status of the
\* client's choosing (one of the lifecycle, one outside it), and an empty
\* boss_name without video_url.
Submission(source, boss_name, video_url, status) ==
    QueueItem(source, "Sekiro", boss_name, None, <<>>, video_url, None, None, status)

SubmitRequests ==
    {Submission("youtube", "Genichiro Ashina", SampleVideo, "pending"),
     Submission("wiki", "Genichiro Ashina", SampleVideo, "pending"),
     Submission("youtube", "", SampleVideo, "pending"),
     Submission("youtube", "Genichiro Ashina", None, "pending"),
     Submission("youtube", "Genichiro Ashina", "", "pending"),
     Submission("youtube", "Genichiro Ashina", SampleVideo, "approved"),
     Submission("youtube", "Genichiro Ashina", SampleVideo, "spam"),
     Submission("youtube", "", None, "pending")}

(***************************************************************************)
(* Actions: one request served, as a whole                                 *)
(***************************************************************************)
\* A client with no request in progress.  A request in progress carries the
\* handler's local variables: the request (req), the queue item (item), the
\* resolved game and boss, the loop positions of ingest_bulk (i, j), its
\* created_bosses (created), and the store call it makes next (pc).
Idle ==
    [op |-> "idle", pc |-> "idle", req |-> None, item |-> Absent, game |-> Absent, boss |-> Absent,
     i |-> 0, j |-> 0, created |-> <<>>]

\* "if db is None: raise HTTPException(500)" opens every handler.
Serve(op, outcome) ==
    LET r == IF db_is_None THEN HTTPException(db, op, 500) ELSE outcome
    IN /\ db' = r.db
       /\ ret' = r.ret
       /\ nreq' = nreq + 1
       /\ UNCHANGED <<db_is_None, inflight>>

CreateGame ==
    /\ nreq < MaxRequests
    /\ \E game \in GameRequests : Serve("create_game", create_game(db, game))

CreateBoss ==
    /\ nreq < MaxRequests
    /\ \E boss \in BossRequests(db) : Serve("create_boss", create_boss(db, boss))

CreateStrategy ==
    /\ nreq < MaxRequests
    /\ \E strategy \in StrategyRequests(db) : Serve("create_strategy", create_strategy(db, strategy))

IngestDemo ==
    /\ nreq < MaxRequests
    /\ Serve("ingest_demo", ingest_demo(db))

IngestYoutube ==
    /\ nreq < MaxRequests
    /\ \E data \in YoutubeRequests : Serve("ingest_youtube", ingest_youtube(db, data))

IngestBulk ==
    /\ nreq < MaxRequests
    /\ \E payload \in BulkRequests(db) : Serve("ingest_bulk", ingest_bulk(db, payload))

ModSubmit ==
    /\ nreq < MaxRequests
    /\ \E item \in SubmitRequests : Serve("mod_submit", mod_submit(db, item))

ModApprove ==
    /\ nreq < MaxRequests
    /\ \E item_id \in IdStrings(db.ingest_queue) : Serve("mod_approve", mod_approve(db, item_id))

ModReject ==
    /\ nreq < MaxRequests
    /\ \E item_id \in IdStrings(db.ingest_queue) : Serve("mod_reject", mod_reject(db, item_id))

ScheduledIngest ==
    /\ nreq < MaxRequests
    /\ Serve("scheduled_ingest", scheduled_ingest(db))

Init ==
    /\ db = EmptyStore
    /\ db_is_None \in BOOLEAN
    /\ ret = NoResponse
    /\ nreq = 0
    /\ inflight = [c \in Clients |-> Idle]

Next ==
    \/ CreateGame
    \/ CreateBoss
    \/ CreateStrategy
    \/ IngestDemo
    \/ IngestYoutube
    \/ IngestBulk
    \/ ModSubmit
    \/ ModApprove
    \/ ModReject
    \/ ScheduledIngest

Spec == Init /\ [][Next]_vars

(***************************************************************************)
(* Concurrent ingestion: one store call per step                           *)
(***************************************************************************)
\* The routes are plain "def" functions, which the server runs in worker
\* threads, so the store calls of two requests interleave.  Each step below
\* is one store call of ingest_youtube, ingest_bulk or mod_approve together
\* with the local computation that follows it, up to the next store call.
\* (The find_one by _id after each create_document reads the document just
\* inserted, which no handler changes: it is taken with the insert.)

\* The requests of the concurrent clients.  They name the same game, boss
\* and video: the submission that is in the queue, its approval, and the
\* youtube and bulk requests for the same content.
RaceSubmission == Submission("youtube", "Genichiro Ashina", SampleVideo, "pending")

RaceYoutube == YoutubeIngest("Sekiro", "Genichiro Ashina", SampleVideo)

RaceBulk ==
    BulkIngest("Sekiro",
        <<BulkBoss("Genichiro Ashina", <<StrategyCreate(MalformedId, "Bulk guide", <<>>, None, SampleVideo)>>)>>)

\* The local values of a request in progress.
TitleOf(l) == IF l.op = "mod_approve" THEN l.item.game_title ELSE l.req.game_title

GameCreateOf(l) ==
    IF l.op = "ingest_bulk"
    THEN GameCreate(l.req.game_title, l.req.platform, l.req.cover_image, l.req.description)
    ELSE GameCreate(TitleOf(l), None, None, None)

BossCreateOf(l) ==
    LET game_id_str == str(l.game._id)
    IN CASE l.op = "ingest_bulk" ->
              LET b == l.req.bosses[l.i] IN BossCreate(game_id_str, b.name, b.image, b.summary, b.difficulty)
         [] l.op = "mod_approve" ->
              BossCreate(game_id_str, l.item.boss_name, l.item.image, l.item.summary, l.item.difficulty)
         [] OTHER ->
              BossCreate(game_id_str, l.req.boss_name, l.req.image, l.req.summary, l.req.difficulty)

\* The Strategy the request looks up and stores.  In ingest_bulk an entry
\* with a well-formed boss_id goes as sent, any other is linked to the boss.
StrategyOf(l) ==
    CASE l.op = "ingest_bulk" ->
           LET s == l.req.bosses[l.i].strategies[l.j]
           IN IF ~InvalidId(s.boss_id) THEN s
              ELSE StrategyCreate(str(l.boss._id), s.title, s.steps, s.recommended_level, s.video_url)
      [] l.op = "mod_approve" ->
           StrategyCreate(str(l.boss._id),
               IF Truthy(l.item.strategy_title) THEN l.item.strategy_title
               ELSE "Guide: " \o l.item.boss_name,
               l.item.steps, l.item.recommended_level, l.item.video_url)
      [] OTHER ->
           StrategyCreate(str(l.boss._id),
               IF Truthy(l.req.strategy_title) THEN l.req.strategy_title
               ELSE "Video Guide: " \o l.req.boss_name,
               l.req.steps, l.req.recommended_level, UrlStr(l.req.video_url))

\* The request of client c goes on with the locals l on the store d.
Continue(c, d, l) ==
    /\ db' = d
    /\ inflight' = [inflight EXCEPT ![c] = l]
    /\ UNCHANGED <<ret, nreq, db_is_None>>

\* The request of client c ends with the outcome r.
Finish(c, r) ==
    /\ db' = r.db
    /\ ret' = r.ret
    /\ inflight' = [inflight EXCEPT ![c] = Idle]
    /\ UNCHANGED <<nreq, db_is_None>>

\* What follows "ensure game".
AfterGame(c, d, l) ==
    IF l.op = "ingest_bulk" /\ l.req.bosses = <<>>
    THEN Finish(c, Respond(d, l.op, 200, <<serialize_doc(l.game)>>))
    ELSE Continue(c, d, [l EXCEPT !.pc = "find_boss", !.i = 1])

\* ingest_bulk at entry j of boss i: past the last entry it goes to the next
\* boss or returns; an entry with a video_url is counted first, one without
\* is stored at once.
BulkEntry(c, d, l) ==
    LET b == l.req.bosses[l.i]
    IN IF l.j > Len(b.strategies)
       THEN LET created_bosses == Append(l.created, serialize_doc(l.boss))
            IN IF l.i < Len(l.req.bosses)
               THEN Continue(c, d, [l EXCEPT !.created = created_bosses, !.i = @ + 1, !.j = 0,
                                             !.pc = "find_boss"])
               ELSE Finish(c, Respond(d, l.op, 200, <<serialize_doc(l.game)>> \o created_bosses))
       ELSE Continue(c, d, [l EXCEPT !.pc = IF Truthy(b.strategies[l.j].video_url)
                                            THEN "find_strategy" ELSE "create_strategy"])

\* What follows "ensure boss".
AfterBoss(c, d, l) ==
    CASE l.op = "ingest_bulk" -> BulkEntry(c, d, [l EXCEPT !.j = 1])
      [] l.op = "mod_approve" ->
           Continue(c, d, [l EXCEPT !.pc = IF Truthy(l.item.video_url)
                                           THEN "find_strategy" ELSE "update_status"])
      [] OTHER -> Continue(c, d, [l EXCEPT !.pc = "find_strategy"])

\* What follows the strategy part; sid is the id of the Strategy found or stored.
AfterStrategy(c, d, l, sid) ==
    CASE l.op = "ingest_bulk" -> BulkEntry(c, d, [l EXCEPT !.j = @ + 1])
      [] l.op = "mod_approve" -> Continue(c, d, [l EXCEPT !.pc = "update_status"])
      [] OTHER -> Finish(c, Respond(d, l.op, 200, <<sid>>))

\* A client sends a request: the handler starts, with a configured store.
Start(c, op, req) ==
    /\ inflight[c] = Idle
    /\ inflight' = [inflight EXCEPT ![c] =
                       [Idle EXCEPT !.op = op, !.req = req,
                                    !.pc = IF op = "mod_approve" THEN "find_item" ELSE "find_game"]]
    /\ nreq' = nreq + 1
    /\ UNCHANGED <<db, ret, db_is_None>>

StartYoutube ==
    /\ nreq < MaxRaceRequests
    /\ \E c \in Clients : Start(c, "ingest_youtube", RaceYoutube)

StartBulk ==
    /\ nreq < MaxRaceRequests
    /\ \E c \in Clients : Start(c, "ingest_bulk", RaceBulk)

StartApprove ==
    /\ nreq < MaxRaceRequests
    /\ \E c \in Clients, item_id \in IdStrings(db.ingest_queue) : Start(c, "mod_approve", item_id)

\* mod_approve: ObjectId(item_id), then find_one({"_id": oid}) on the queue.
FindItem ==
    /\ ~db_is_None
    /\ \E c \in Clients :
          LET l == inflight[c]
          IN /\ l.pc = "find_item"
             /\ IF InvalidId(l.req) THEN Finish(c, HTTPException(db, l.op, 400))
                ELSE LET item == FindById(db.ingest_queue, ObjectId(l.req))
                     IN IF ~Found(item) THEN Finish(c, HTTPException(db, l.op, 404))
                        ELSE Continue(c, db, [l EXCEPT !.item = item, !.pc = "find_game"])

\* FindGame without the lookup: the request goes on to insert its Game.
FindGameNoLookup ==
    /\ ~db_is_None
    /\ \E c \in Clients :
          LET l == inflight[c]
          IN /\ l.pc = "find_game"
             /\ IF ~MinLengthOk(TitleOf(l)) THEN Finish(c, HTTPException(db, l.op, 500))
                ELSE Continue(c, db, [l EXCEPT !.pc = "create_game"])

\* find_one({"title": ...}); when nothing is found GameCreate is built,
\* which raises on an empty title.
FindGame ==
    /\ ~db_is_None
    /\ \E c \in Clients :
          LET l == inflight[c]
              M(g) == g.title = TitleOf(l)
              game == FindOne(db.game, M)
          IN /\ l.pc = "find_game"
             /\ IF Found(game) THEN AfterGame(c, db, [l EXCEPT !.game = game])
                ELSE IF ~MinLengthOk(TitleOf(l)) THEN Finish(c, HTTPException(db, l.op, 500))
                ELSE Continue(c, db, [l EXCEPT !.pc = "create_game"])

\* InsertGame looking the title up again in the same store call: an insert
\* only when still no Game has it.
InsertGameIfAbsent ==
    /\ ~db_is_None
    /\ \E c \in Clients :
          LET l == inflight[c]
              M(g) == g.title = TitleOf(l)
              game == FindOne(db.game, M)
              cr == create_document(db, "game", GameCreateOf(l))
          IN /\ l.pc = "create_game"
             /\ IF Found(game) THEN AfterGame(c, db, [l EXCEPT !.game = game])
                ELSE AfterGame(c, cr.db, [l EXCEPT !.game = FindById(cr.db.game, ObjectId(cr.id))])

\* create_document("game", ...), on the verdict of the earlier find_one.
InsertGame ==
    /\ ~db_is_None
    /\ \E c \in Clients :
          LET l == inflight[c]
              cr == create_document(db, "game", GameCreateOf(l))
          IN /\ l.pc = "create_game"
             /\ AfterGame(c, cr.db, [l EXCEPT !.game = FindById(cr.db.game, ObjectId(cr.id))])

\* find_one({"name": ..., "game_id": game_id_str}); when nothing is found
\* BossCreate is built, which raises on an empty name.
FindBoss ==
    /\ ~db_is_None
    /\ \E c \in Clients :
          LET l == inflight[c]
              bc == BossCreateOf(l)
              M(b) == b.name = bc.name /\ b.game_id = bc.game_id
              boss == FindOne(db.boss, M)
          IN /\ l.pc = "find_boss"
             /\ IF Found(boss) THEN AfterBoss(c, db, [l EXCEPT !.boss = boss])
                ELSE IF ~MinLengthOk(bc.name) THEN Finish(c, HTTPException(db, l.op, 500))
                ELSE Continue(c, db, [l EXCEPT !.pc = "create_boss"])

\* create_document("boss", ...), on the verdict of the earlier find_one.
InsertBoss ==
    /\ ~db_is_None
    /\ \E c \in Clients :
          LET l == inflight[c]
              cr == create_document(db, "boss", BossCreateOf(l))
          IN /\ l.pc = "create_boss"
             /\ AfterBoss(c, cr.db, [l EXCEPT !.boss = FindById(cr.db.boss, ObjectId(cr.id))])

\* The lookup of a stored Strategy with the (boss_id, video_url) to store.
FindStrategy ==
    /\ ~db_is_None
    /\ \E c \in Clients :
          LET l == inflight[c]
              sc == StrategyOf(l)
              M(s) == s.boss_id = sc.boss_id /\ s.video_url = sc.video_url
              existing == FindOne(db.strategy, M)
          IN /\ l.pc = "find_strategy"
             /\ IF Found(existing) THEN AfterStrategy(c, db, l, serialize_doc(existing))
                ELSE Continue(c, db, [l EXCEPT !.pc = "create_strategy"])

\* create_document("strategy", ...), on the verdict of the earlier lookup.
InsertStrategy ==
    /\ ~db_is_None
    /\ \E c \in Clients :
          LET l == inflight[c]
              cr == create_document(db, "strategy", StrategyOf(l))
          IN /\ l.pc = "create_strategy"
             /\ AfterStrategy(c, cr.db, l, cr.id)

\* mod_approve: update_one({"_id": oid}, {"$set": {"status": "approved"}}) and the response.
MarkApproved ==
    /\ ~db_is_None
    /\ \E c \in Clients :
          LET l == inflight[c]
          IN /\ l.pc = "update_status"
             /\ Finish(c, Respond(UpdateStatus(db, l.item._id, "approved").db, l.op, 200,
                                  <<str(l.item._id)>>))

\* The store after the one mod_submit that put RaceSubmission in the queue.
RaceInit ==
    /\ db = mod_submit(EmptyStore, RaceSubmission).db
    /\ db_is_None = FALSE
    /\ ret = NoResponse
    /\ nreq = 0
    /\ inflight = [c \in Clients |-> Idle]

RaceNext ==
    \/ StartYoutube
    \/ StartBulk
    \/ StartApprove
    \/ FindItem
    \/ FindGame
    \/ InsertGame
    \/ FindBoss
    \/ InsertBoss
    \/ FindStrategy
    \/ InsertStrategy
    \/ MarkApproved

SpecRace == RaceInit /\ [][RaceNext]_vars

(***************************************************************************)
(* An approval that stops half way, and its retry                          *)
(***************************************************************************)
\* mod_approve makes its store calls one by one, outside any transaction: a
\* worker that dies between two of them leaves the writes made so far.  In
\* SpecCrash approvals run one at a time, store call by store call, on a
\* queue that holds one pending item and an empty catalog; a request in
\* progress may stop at any point, and the item may be approved again.
CrashSubmissions ==
    {RaceSubmission,
     Submission("youtube", "Genichiro Ashina", None, "pending"),
     Submission("youtube", "", SampleVideo, "pending")}

\* mod_approve starts while no other request is in progress.
StartApproveAlone ==
    /\ nreq < MaxRaceRequests
    /\ \A c \in Clients : inflight[c] = Idle
    /\ \E c \in Clients, item_id \in IdStrings(db.ingest_queue) : Start(c, "mod_approve", item_id)

\* The request in progress stops where it stands: no further store call, no response.
Crash ==
    /\ ~db_is_None
    /\ \E c \in Clients :
          /\ inflight[c] # Idle
          /\ inflight' = [inflight EXCEPT ![c] = Idle]
          /\ UNCHANGED <<db, ret, nreq, db_is_None>>

CrashInit ==
    /\ \E item \in CrashSubmissions : db = mod_submit(EmptyStore, item).db
    /\ db_is_None = FALSE
    /\ ret = NoResponse
    /\ nreq = 0
    /\ inflight = [c \in Clients |-> Idle]

CrashNext ==
    \/ StartApproveAlone
    \/ FindItem
    \/ FindGame
    \/ InsertGame
    \/ FindBoss
    \/ InsertBoss
    \/ FindStrategy
    \/ InsertStrategy
    \/ MarkApproved
    \/ Crash

SpecCrash == CrashInit /\ [][CrashNext]_vars

(***************************************************************************)
(* Vocabulary of the properties                                            *)
(***************************************************************************)
\* The step from the current state to the next one is the request whose
\* outcome is r, served by a configured store.
StepOf(r) == ~db_is_None /\ db' = r.db /\ ret' = r.ret

Catalog(d) == <<d.game, d.boss, d.strategy>>

Last(docs) == docs[Len(docs)]

\* x carries the dedupe key of the submission: same source, game_title and
\* boss_name and, when the submission has a video_url, the same video_url.
SameKey(item, x) ==
    /\ x.source = item.source /\ x.game_title = item.game_title /\ x.boss_name = item.boss_name
    /\ (item.video_url \notin {None, ""}) => (x.video_url = item.video_url)

KeyHolders(d, item) == {i \in 1..Len(d.ingest_queue) : SameKey(item, d.ingest_queue[i])}

(***************************************************************************)
(* C1: once a queue item's status is approved or rejected, no later        *)
(* operation changes it; a status changes only from pending, to approved   *)
(* or to rejected.                                                         *)
(***************************************************************************)
C1_StatusChangesOnlyFromPending ==
    [][\A i \in 1..Len(db.ingest_queue) :
          db'.ingest_queue[i].status # db.ingest_queue[i].status
              => /\ db.ingest_queue[i].status = "pending"
                 /\ db'.ingest_queue[i].status \in {"approved", "rejected"}]_vars

(***************************************************************************)
(* C2: mod_submit is idempotent on its dedupe key.  When an item with the  *)
(* key of the submission is stored, in whatever status, mod_submit inserts *)
(* nothing, changes nothing and returns the id of such an item; after a    *)
(* submission an item with its key is stored, exactly one when the key has *)
(* a video_url.                                                            *)
(***************************************************************************)
C2_SubmitIdempotent ==
    [][\A item \in SubmitRequests :
          (ret'.op = "mod_submit" /\ StepOf(mod_submit(db, item)))
              => /\ ret'.code = 200
                 /\ KeyHolders(db, item) # {}
                      => /\ db' = db
                         /\ \E i \in KeyHolders(db, item) : ret'.ids = <<str(db.ingest_queue[i]._id)>>
                 /\ KeyHolders(db, item) = {}
                      => /\ Len(db'.ingest_queue) = Len(db.ingest_queue) + 1
                         /\ ret'.ids = <<str(Last(db'.ingest_queue)._id)>>
                 /\ KeyHolders(db', item) # {}
                 /\ Truthy(item.video_url) => Cardinality(KeyHolders(db', item)) = 1]_vars

\* A submission was answered with a stored item that had been rejected.
C2_Witness ==
    /\ ret.op = "mod_submit" /\ ret.code = 200
    /\ ret.ids = <<str(db.ingest_queue[1]._id)>>
    /\ db.ingest_queue[1].status = "rejected"

(***************************************************************************)
(* C3: an item that mod_submit inserts is stored with status pending,      *)
(* whatever the request says.                                              *)
(***************************************************************************)
C3_SubmitStoresPending ==
    [][\A item \in SubmitRequests :
          (/\ ret'.op = "mod_submit"
           /\ StepOf(mod_submit(db, item))
           /\ Len(db'.ingest_queue) = Len(db.ingest_queue) + 1)
              => Last(db'.ingest_queue).status = "pending"]_vars

(***************************************************************************)
(* C4: mod_approve on a stored pending item sets its status to approved    *)
(* and, when the item has a video_url, inserts exactly one Strategy, with  *)
(* that video_url and with the boss_id of the Boss resolved by (boss_name, *)
(* game_id) under the Game resolved by game_title.                         *)
(***************************************************************************)
ResolvedGame(d, title) == LET M(g) == g.title = title IN FindOne(d.game, M)
ResolvedBoss(d, title, name) ==
    LET M(b) == b.name = name /\ b.game_id = str(ResolvedGame(d, title)._id) IN FindOne(d.boss, M)

C4_ApprovePendingIngests ==
    [][\A item_id \in IdStrings(db.ingest_queue) :
          LET item == FindById(db.ingest_queue, ObjectId(item_id))
          IN (/\ ret'.op = "mod_approve"
              /\ Found(item) /\ item.status = "pending"
              /\ StepOf(mod_approve(db, item_id)))
                => /\ FindById(db'.ingest_queue, item._id).status = "approved"
                   /\ Truthy(item.video_url)
                        => /\ Len(db'.strategy) = Len(db.strategy) + 1
                           /\ Last(db'.strategy).video_url = item.video_url
                           /\ Last(db'.strategy).boss_id =
                                  str(ResolvedBoss(db', item.game_title, item.boss_name)._id)]_vars

(***************************************************************************)
(* C5: mod_approve run again on the item the previous request approved     *)
(* inserts no Game, no Boss and no Strategy: the catalog is the one the    *)
(* first run left.                                                         *)
(***************************************************************************)
C5_ReapproveKeepsCatalog ==
    [][\A item_id \in IdStrings(db.ingest_queue) :
          (/\ ret'.op = "mod_approve"
           /\ ret.op = "mod_approve" /\ ret.code = 200
           /\ ret.ids = <<str(ObjectId(item_id))>>
           /\ StepOf(mod_approve(db, item_id)))
              => /\ Catalog(db') = Catalog(db)
                 /\ ret'.code = 200
                 /\ ret'.ids = ret.ids]_vars

\* Three requests: a submission, its approval, which made the Game, the Boss
\* and the Strategy, and one more answered by mod_approve.
C5_Witness ==
    /\ ret.op = "mod_approve" /\ ret.code = 200 /\ nreq = 3
    /\ Len(db.ingest_queue) = 1 /\ db.ingest_queue[1].status = "approved"
    /\ Len(db.game) = 1 /\ Len(db.boss) = 1 /\ Len(db.strategy) = 1
    /\ db.strategy[1].title = "Guide: Genichiro Ashina"

(***************************************************************************)
(* C6: mod_reject on a stored item sets the status of that item to         *)
(* rejected, whatever it was, and changes nothing else: not the catalog,   *)
(* not another queue item, not another field of the item.                  *)
(***************************************************************************)
C6_RejectOnlySetsStatus ==
    [][\A item_id \in IdStrings(db.ingest_queue) :
          LET oid == ObjectId(item_id)
          IN (/\ ret'.op = "mod_reject"
              /\ Found(FindById(db.ingest_queue, oid))
              /\ StepOf(mod_reject(db, item_id)))
                => /\ ret'.code = 200 /\ ret'.ids = <<str(oid)>>
                   /\ Catalog(db') = Catalog(db)
                   /\ Len(db'.ingest_queue) = Len(db.ingest_queue)
                   /\ \A i \in 1..Len(db.ingest_queue) :
                         db'.ingest_queue[i] =
                            IF db.ingest_queue[i]._id = oid
                            THEN [db.ingest_queue[i] EXCEPT !.status = "rejected"]
                            ELSE db.ingest_queue[i]]_vars

\* The only queue item was approved (its Strategy is stored) and is now rejected.
C6_Witness ==
    /\ ret.op = "mod_reject" /\ ret.code = 200
    /\ Len(db.ingest_queue) = 1 /\ db.ingest_queue[1].status = "rejected"
    /\ \E i \in 1..Len(db.strategy) : db.strategy[i].title = "Guide: Genichiro Ashina"

(***************************************************************************)
(* C7: mod_approve and mod_reject with a well-formed id of no queue item   *)
(* answer 404 and leave the whole store as it was.                         *)
(***************************************************************************)
C7_UnknownItemNotFound ==
    [][\A item_id \in IdStrings(db.ingest_queue) :
          (/\ ret'.op \in {"mod_approve", "mod_reject"}
           /\ ~InvalidId(item_id)
           /\ ~Found(FindById(db.ingest_queue, ObjectId(item_id)))
           /\ StepOf(mod_approve(db, item_id)) \/ StepOf(mod_reject(db, item_id)))
              => ret'.code = 404 /\ ret'.ids = <<>> /\ db' = db]_vars

\* mod_reject answered 404 while items and catalog documents are stored.
C7_Witness ==
    /\ ret.op = "mod_reject" /\ ret.code = 404
    /\ db.ingest_queue # <<>> /\ db.game # <<>>

\* mod_approve answered 404 while items are stored.
C7_WitnessApprove ==
    /\ ret.op = "mod_approve" /\ ret.code = 404
    /\ db.ingest_queue # <<>>

(***************************************************************************)
(* C8: the demo seed is idempotent.  From a store with no Game titled      *)
(* "Elden Ring", ingest_demo leaves exactly one such Game, exactly three   *)
(* Bosses with its id, the demo bosses, and exactly one Strategy for each  *)
(* of them; a call that finds the Game stored, as the second of two calls  *)
(* in sequence does, inserts nothing and returns the same Game.            *)
(***************************************************************************)
DemoGames(d) == {i \in 1..Len(d.game) : d.game[i].title = "Elden Ring"}

DemoCounts(d) ==
    /\ Cardinality(DemoGames(d)) = 1
    /\ LET g == d.game[CHOOSE i \in DemoGames(d) : TRUE]
           bosses == {i \in 1..Len(d.boss) : d.boss[i].game_id = str(g._id)}
       IN /\ Cardinality(bosses) = 3
          /\ {d.boss[i].name : i \in bosses} =
                 {"Margit, the Fell Omen", "Godrick the Grafted", "Malenia, Blade of Miquella"}
          /\ \A i \in bosses :
                Cardinality({j \in 1..Len(d.strategy) : d.strategy[j].boss_id = str(d.boss[i]._id)}) = 1

C8_DemoSeedIdempotent ==
    [][(ret'.op = "ingest_demo" /\ StepOf(ingest_demo(db)))
          => /\ ret'.code = 200
             /\ DemoGames(db) = {}
                  => /\ DemoCounts(db')
                     /\ ret'.ids = <<str(db'.game[CHOOSE i \in DemoGames(db') : TRUE]._id)>>
             /\ DemoGames(db) # {} => db' = db
             /\ (ret.op = "ingest_demo" /\ ret.code = 200)
                  => /\ db' = db
                     /\ ret'.ids = ret.ids]_vars

\* Two requests, the last one ingest_demo, and the store holds the demo catalog and nothing else.
C8_Witness ==
    /\ ret.op = "ingest_demo" /\ ret.code = 200 /\ nreq = 2
    /\ DemoCounts(db)
    /\ Len(db.game) = 1 /\ Len(db.boss) = 3 /\ Len(db.strategy) = 3 /\ db.ingest_queue = <<>>

(***************************************************************************)
(* C9: dedup by video.  An ingest_youtube call that follows one with the   *)
(* same game_title, boss_name and video_url inserts nothing and returns    *)
(* the Strategy id the first call returned; exactly one Strategy is stored *)
(* for that (boss_id, video_url).                                          *)
(***************************************************************************)
\* The previous response is that of an ingest_youtube call for data's game_title, boss_name and video_url.
AnswersYoutube(d, r, data) ==
    /\ r.op = "ingest_youtube" /\ r.code = 200
    /\ LET S == FindById(d.strategy, ObjectId(r.ids[1]))
           MB(b) == str(b._id) = S.boss_id
           B == FindOne(d.boss, MB)
           MG(g) == str(g._id) = B.game_id
           G == FindOne(d.game, MG)
       IN /\ S.video_url = UrlStr(data.video_url)
          /\ B.name = data.boss_name
          /\ G.title = data.game_title

C9_YoutubeDedupByVideo ==
    [][\A data \in YoutubeRequests :
          (/\ ret'.op = "ingest_youtube"
           /\ AnswersYoutube(db, ret, data)
           /\ StepOf(ingest_youtube(db, data)))
              => /\ db' = db
                 /\ ret'.code = 200
                 /\ ret'.ids = ret.ids
                 /\ LET S == FindById(db'.strategy, ObjectId(ret'.ids[1]))
                    IN Cardinality({j \in 1..Len(db'.strategy) :
                                       /\ db'.strategy[j].boss_id = S.boss_id
                                       /\ db'.strategy[j].video_url = S.video_url}) = 1]_vars

\* Two requests, the last one ingest_youtube for "Sekiro", and one Game, one Boss, one Strategy.
C9_Witness ==
    /\ ret.op = "ingest_youtube" /\ ret.code = 200 /\ nreq = 2
    /\ Len(db.game) = 1 /\ Len(db.boss) = 1 /\ Len(db.strategy) = 1 /\ db.ingest_queue = <<>>
    /\ db.game[1].title = "Sekiro"
    /\ ret.ids = <<str(db.strategy[1]._id)>>

(***************************************************************************)
(* C10: a strategy without video_url is never deduplicated.                *)
(***************************************************************************)
BossExists(d, boss_id) ==
    ~InvalidId(boss_id) /\ \E i \in 1..Len(d.boss) : d.boss[i]._id = ObjectId(boss_id)

\* The strategy entries of a bulk payload that have no video_url and that
\* the request gets to: those of the bosses up to the first name BossCreate
\* rejects, none when GameCreate rejects the title.
NoVideoEntries(payload) ==
    {p \in UNION {{<<i, j>> : j \in 1..Len(payload.bosses[i].strategies)} : i \in 1..Len(payload.bosses)} :
        /\ payload.bosses[p[1]].strategies[p[2]].video_url \in {None, ""}
        /\ payload.game_title # ""
        /\ \A k \in 1..p[1] : payload.bosses[k].name # ""}

\* create_strategy for a stored Boss, without video_url, inserts the strategy as a new document.
CreateWithoutVideoInserts ==
    \A strategy \in StrategyRequests(db) :
        (/\ ret'.op = "create_strategy"
         /\ strategy.video_url \in {None, ""}
         /\ BossExists(db, strategy.boss_id)
         /\ StepOf(create_strategy(db, strategy)))
            => /\ ret'.code = 200
               /\ Len(db'.strategy) = Len(db.strategy) + 1
               /\ SubSeq(db'.strategy, 1, Len(db.strategy)) = db.strategy
               /\ Last(db'.strategy) = [_id |-> NextOid(db)] @@ strategy
               /\ ret'.ids = <<str(NextOid(db))>>

\* ingest_bulk inserts every entry without video_url that it gets to.
BulkWithoutVideoInserts ==
    \A payload \in BulkRequests(db) :
        (ret'.op = "ingest_bulk" /\ StepOf(ingest_bulk(db, payload)))
            => Len(db'.strategy) >= Len(db.strategy) + Cardinality(NoVideoEntries(payload))

\* The claim as it stands, queue approval included: approving an item
\* without video_url inserts a Strategy, like the other entry points.
C10_Original ==
    [][/\ CreateWithoutVideoInserts
       /\ BulkWithoutVideoInserts
       /\ \A item_id \in IdStrings(db.ingest_queue) :
             LET item == FindById(db.ingest_queue, ObjectId(item_id))
             IN (/\ ret'.op = "mod_approve"
                 /\ Found(item) /\ item.video_url \in {None, ""}
                 /\ StepOf(mod_approve(db, item_id)) /\ ret'.code = 200)
                    => Len(db'.strategy) = Len(db.strategy) + 1]_vars

\* C10, amended: create_strategy for a stored Boss and every strategy entry
\* that ingest_bulk processes, without video_url, insert a new Strategy each
\* time; mod_approve on an item without video_url inserts no Strategy.
C10_NoVideoNeverDeduplicated ==
    [][/\ CreateWithoutVideoInserts
       /\ BulkWithoutVideoInserts
       /\ \A item_id \in IdStrings(db.ingest_queue) :
             LET item == FindById(db.ingest_queue, ObjectId(item_id))
             IN (/\ ret'.op = "mod_approve"
                 /\ Found(item) /\ item.video_url \in {None, ""}
                 /\ StepOf(mod_approve(db, item_id)))
                    => db'.strategy = db.strategy]_vars

\* create_strategy answered, and two strategies of one boss, both without video_url, are stored.
C10_Witness ==
    /\ ret.op = "create_strategy" /\ ret.code = 200
    /\ \E i, j \in 1..Len(db.strategy) :
          /\ i < j
          /\ db.strategy[i].boss_id = db.strategy[j].boss_id
          /\ db.strategy[i].video_url \in {None, ""}
          /\ db.strategy[i].video_url = db.strategy[j].video_url
          /\ db.strategy[i].title = "Cheese" /\ db.strategy[j].title = "Cheese"
          /\ ret.ids = <<str(db.strategy[j]._id)>>

(***************************************************************************)
(* C11: create_boss with a game_id that is no ObjectId fails with the      *)
(* client input error (400); with a well-formed game_id of no stored Game  *)
(* it fails with NotFound (404); either way no Boss is inserted and the    *)
(* store is left as it was.  create_strategy does the same with boss_id    *)
(* against the bosses.  The two errors are distinct outcomes.              *)
(***************************************************************************)
C11_ReferenceCheckedOnCreate ==
    [][/\ \A boss \in BossRequests(db) :
             (ret'.op = "create_boss" /\ StepOf(create_boss(db, boss)))
                 => /\ InvalidId(boss.game_id) => (ret'.code = 400 /\ db' = db)
                    /\ (~InvalidId(boss.game_id) /\ ~Found(FindById(db.game, ObjectId(boss.game_id))))
                         => (ret'.code = 404 /\ db' = db)
                    /\ ret'.code \in {400, 404} => ret'.ids = <<>>
       /\ \A strategy \in StrategyRequests(db) :
             (ret'.op = "create_strategy" /\ StepOf(create_strategy(db, strategy)))
                 => /\ InvalidId(strategy.boss_id) => (ret'.code = 400 /\ db' = db)
                    /\ (~InvalidId(strategy.boss_id) /\ ~Found(FindById(db.boss, ObjectId(strategy.boss_id))))
                         => (ret'.code = 404 /\ db' = db)
                    /\ ret'.code \in {400, 404} => ret'.ids = <<>>]_vars

\* create_boss was answered NotFound while a Game is stored, and no Boss is.
C11_Witness ==
    /\ ret.op = "create_boss" /\ ret.code = 404
    /\ ~db_is_None
    /\ Len(db.game) = 1 /\ db.boss = <<>>

\* The id string names a stored document of docs.
Resolves(id_str, docs) == ~InvalidId(id_str) /\ Found(FindById(docs, ObjectId(id_str)))

(***************************************************************************)
(* C12: referential integrity.  In every reachable state the game_id of    *)
(* every stored Boss is the id of a stored Game, and the boss_id of every  *)
(* stored Strategy is the id of a stored Boss.                             *)
(***************************************************************************)
C12_ReferentialIntegrity ==
    /\ \A i \in 1..Len(db.boss) : Resolves(db.boss[i].game_id, db.game)
    /\ \A i \in 1..Len(db.strategy) : Resolves(db.strategy[i].boss_id, db.boss)

\* The strategy entries of a bulk payload, as <<boss index, entry index>>,
\* that the request gets to, whose boss_id is no ObjectId or names no Boss
\* stored before the request.
UnresolvedEntries(d, payload) ==
    {p \in UNION {{<<i, j>> : j \in 1..Len(payload.bosses[i].strategies)} : i \in 1..Len(payload.bosses)} :
        /\ ~Resolves(payload.bosses[p[1]].strategies[p[2]].boss_id, d.boss)
        /\ payload.game_title # ""
        /\ \A k \in 1..p[1] : payload.bosses[k].name # ""}

(***************************************************************************)
(* C13: in ingest_bulk a strategy entry whose boss_id is malformed, or is  *)
(* well-formed but names no stored Boss, does not fail the request: no     *)
(* Strategy is stored under the boss_id it declared, and after the request *)
(* a Strategy with the entry's video_url is stored under the Boss resolved *)
(* for its bulk entry; the other bosses and entries are processed, and a   *)
(* request whose title and boss names are valid is answered 200.           *)
(***************************************************************************)
C13_BulkRelinksUnresolvedBoss ==
    [][\A payload \in BulkRequests(db) :
          (ret'.op = "ingest_bulk" /\ StepOf(ingest_bulk(db, payload)))
              => /\ \A p \in UnresolvedEntries(db, payload) :
                       LET b == payload.bosses[p[1]]
                           s == b.strategies[p[2]]
                           boss == ResolvedBoss(db', payload.game_title, b.name)
                       IN /\ Found(boss)
                          /\ \E i \in 1..Len(db'.strategy) :
                                /\ db'.strategy[i].boss_id = str(boss._id)
                                /\ db'.strategy[i].video_url = s.video_url
                          /\ \A i \in (Len(db.strategy) + 1)..Len(db'.strategy) :
                                db'.strategy[i].boss_id # s.boss_id
                 /\ (payload.game_title # "" /\ \A k \in 1..Len(payload.bosses) : payload.bosses[k].name # "")
                      => /\ ret'.code = 200
                         /\ Len(ret'.ids) = 1 + Len(payload.bosses)]_vars

\* docs is kept as it is at the head of docs2: nothing removed, no field changed.
Kept(docs, docs2) == Len(docs2) >= Len(docs) /\ SubSeq(docs2, 1, Len(docs)) = docs

\* The documents of docs2 that were not in docs.
Inserted(docs, docs2) == {docs2[i] : i \in (Len(docs) + 1)..Len(docs2)}

(***************************************************************************)
(* C14: first write wins on resolve-or-create.  ingest_youtube,            *)
(* ingest_bulk and mod_approve insert no Game with a title that has a      *)
(* Game and no Boss with a (name, game_id) that has a Boss, and leave the  *)
(* stored games and bosses with the fields they had, whatever fields the   *)
(* request supplies.                                                       *)
(***************************************************************************)
C14_FirstWriteWins ==
    [][(ret'.op \in {"ingest_youtube", "ingest_bulk", "mod_approve"})
          => /\ Kept(db.game, db'.game)
             /\ Kept(db.boss, db'.boss)
             /\ \A g \in Inserted(db.game, db'.game) :
                   \A j \in 1..Len(db.game) : db.game[j].title # g.title
             /\ \A b \in Inserted(db.boss, db'.boss) :
                   \A j \in 1..Len(db.boss) :
                       ~(db.boss[j].name = b.name /\ db.boss[j].game_id = b.game_id)]_vars

\* ingest_youtube, sending no platform and no difficulty, was served on the
\* demo catalog: the one Game and the three bosses are stored with the demo's
\* fields, and the video went to the stored Boss.
C14_Witness ==
    /\ ret.op = "ingest_youtube" /\ ret.code = 200
    /\ Len(db.game) = 1 /\ db.game[1].platform = "PC/PS5/Xbox"
    /\ Len(db.boss) = 3 /\ db.boss[1].difficulty = "Hard"
    /\ Len(db.strategy) = 4
    /\ Last(db.strategy).boss_id = str(db.boss[1]._id)
    /\ Last(db.strategy).video_url = SampleVideo

\* The first stored item with the key of the sample, Absent when there is none.
FirstHolder(d, sample) == LET M(x) == SameKey(sample, x) IN FindOne(d.ingest_queue, M)

(***************************************************************************)
(* C15: scheduled_ingest is dedup-checked and idempotent.  For each of its *)
(* two samples it inserts an item only when no item with the sample's      *)
(* (source, game_title, boss_name[, video_url]) is stored, and it returns  *)
(* the first item with each key.  With both keys stored it inserts         *)
(* nothing and changes no item.  The first item with a sample's key is the *)
(* same document after every operation, whatever its status becomes, so a  *)
(* second run returns the items the first run returned.                    *)
(***************************************************************************)
C15_ScheduledIngestIdempotent ==
    [][/\ (ret'.op = "scheduled_ingest" /\ StepOf(scheduled_ingest(db)))
            => /\ ret'.code = 200
               /\ Kept(db.ingest_queue, db'.ingest_queue)
               /\ Len(db'.ingest_queue) = Len(db.ingest_queue)
                     + Cardinality({k \in 1..Len(Samples) : KeyHolders(db, Samples[k]) = {}})
               /\ \A k \in 1..Len(Samples) :
                     KeyHolders(db, Samples[k]) = {}
                         => Cardinality(KeyHolders(db', Samples[k])) = 1
               /\ ret'.ids = [k \in 1..Len(Samples) |-> str(FirstHolder(db', Samples[k])._id)]
               /\ ret.op = "scheduled_ingest" => (db' = db /\ ret' = ret)
       /\ \A k \in 1..Len(Samples) :
             Found(FirstHolder(db, Samples[k]))
                 => FirstHolder(db', Samples[k])._id = FirstHolder(db, Samples[k])._id]_vars

\* A second run was answered with the two items of the first run, after the
\* first of them had left the pending status.
C15_Witness ==
    /\ ret.op = "scheduled_ingest" /\ ret.code = 200
    /\ Len(db.ingest_queue) = 2
    /\ db.ingest_queue[1].boss_name = "Radahn, Starscourge"
    /\ db.ingest_queue[1].status \in {"approved", "rejected"}
    /\ db.ingest_queue[2].source = "wiki" /\ db.ingest_queue[2].status = "pending"
    /\ ret.ids = <<str(db.ingest_queue[1]._id), str(db.ingest_queue[2]._id)>>

(***************************************************************************)
(* C16: in every reachable state every stored queue item has a status in   *)
(* {pending, approved, rejected}.                                          *)
(***************************************************************************)
C16_StatusInLifecycle ==
    \A i \in 1..Len(db.ingest_queue) :
        db.ingest_queue[i].status \in {"pending", "approved", "rejected"}

(***************************************************************************)
(* C18: with every request served as a whole, in every reachable state no  *)
(* two Strategy documents have the same boss_id and the same non-empty     *)
(* video_url.                                                              *)
(***************************************************************************)
C18_StrategyKeyUnique ==
    \A i, j \in 1..Len(db.strategy) :
        (/\ i < j
         /\ Truthy(db.strategy[i].video_url)
         /\ db.strategy[i].video_url = db.strategy[j].video_url)
            => db.strategy[i].boss_id # db.strategy[j].boss_id

\* create_strategy, sent the boss_id and the video_url of the Strategy that
\* an ingestion had stored, was answered with that Strategy and stored none.
C18_Witness ==
    /\ ret.op = "create_strategy" /\ ret.code = 200
    /\ Len(db.strategy) = 1
    /\ db.strategy[1].video_url = SampleVideo
    /\ db.strategy[1].title # "Cheese"
    /\ ret.ids = <<str(db.strategy[1]._id)>>

(***************************************************************************)
(* C19: catalog documents are immutable and never deleted.  Whatever       *)
(* operation runs, every Game, Boss and Strategy stored before the step is *)
(* stored after it with the same field values: the three collections only  *)
(* grow.                                                                   *)
(***************************************************************************)
C19_CatalogOnlyGrows ==
    [][/\ Kept(db.game, db'.game)
       /\ Kept(db.boss, db'.boss)
       /\ Kept(db.strategy, db'.strategy)]_vars

\* ingest_bulk, sending no platform, was served on the demo catalog and
\* stored a Strategy; the demo's Game, bosses and strategies are as they were.
C19_Witness ==
    /\ ret.op = "ingest_bulk" /\ ret.code = 200
    /\ Len(db.game) = 1 /\ db.game[1] = [_id |-> 1] @@ DemoGame
    /\ Len(db.boss) = 3 /\ \A i \in 1..3 : db.boss[i].name = DemoBosses[i].name
    /\ Len(db.strategy) = 4 /\ \A i \in 1..3 : db.strategy[i].video_url = DemoBosses[i].video
    /\ db.strategy[4].title = "Bulk guide"

(***************************************************************************)
(* C20: mod_approve on a stored item sets the item's status to approved,   *)
(* whether or not it inserts a Strategy; on an item without video_url it   *)
(* inserts no Strategy and still resolves or creates the Game of the       *)
(* item's game_title and the Boss of its boss_name under that Game.        *)
(***************************************************************************)
C20_ApproveWithoutVideo ==
    [][\A item_id \in IdStrings(db.ingest_queue) :
          LET item == FindById(db.ingest_queue, ObjectId(item_id))
          IN (ret'.op = "mod_approve" /\ Found(item) /\ StepOf(mod_approve(db, item_id)))
                => /\ FindById(db'.ingest_queue, item._id).status = "approved"
                   /\ item.video_url \in {None, ""}
                        => /\ db'.strategy = db.strategy
                           /\ Found(ResolvedGame(db', item.game_title))
                           /\ Found(ResolvedBoss(db', item.game_title, item.boss_name))]_vars

(***************************************************************************)
(* C17: check-then-act.  With the store calls of concurrent ingest_youtube,*)
(* ingest_bulk and mod_approve requests interleaved, a request that looked *)
(* a Game, Boss or Strategy up and found none inserts it at its next store *)
(* call, whatever other requests have stored in between: the insert adds   *)
(* exactly the request's document, also when its title, (name, game_id) or *)
(* (boss_id, video_url) has a document by then.  States with two Games of  *)
(* one title, two Bosses of one (name, game_id) and two Strategies of one  *)
(* (boss_id, video_url) are reachable.                                     *)
(***************************************************************************)
C17_InsertOnEarlierVerdict ==
    [][\A c \in Clients :
          LET l == inflight[c]
          IN /\ (l.pc = "create_game" /\ inflight'[c] # l)
                  => (/\ Inserted(db.game, db'.game) = {[_id |-> NextOid(db)] @@ GameCreateOf(l)}
                      /\ Kept(db.game, db'.game))
             /\ (l.pc = "create_boss" /\ inflight'[c] # l)
                  => (/\ Inserted(db.boss, db'.boss) = {[_id |-> NextOid(db)] @@ BossCreateOf(l)}
                      /\ Kept(db.boss, db'.boss))
             /\ (l.pc = "create_strategy" /\ inflight'[c] # l)
                  => (/\ Inserted(db.strategy, db'.strategy) = {[_id |-> NextOid(db)] @@ StrategyOf(l)}
                      /\ Kept(db.strategy, db'.strategy))]_vars

\* Two Games with the same title are stored.
C17_Witness ==
    \E i, j \in 1..Len(db.game) : i < j /\ db.game[i].title = db.game[j].title

\* Two Bosses with the same (name, game_id) are stored.
C17_WitnessBoss ==
    \E i, j \in 1..Len(db.boss) :
        i < j /\ db.boss[i].name = db.boss[j].name /\ db.boss[i].game_id = db.boss[j].game_id

\* Two Strategies with the same (boss_id, video_url) are stored.
C17_WitnessStrategy ==
    \E i, j \in 1..Len(db.strategy) :
        /\ i < j
        /\ db.strategy[i].boss_id = db.strategy[j].boss_id
        /\ db.strategy[i].video_url = db.strategy[j].video_url
        /\ Truthy(db.strategy[i].video_url)

\* The catalog holds what the approval of the item ingests: a Game with its
\* game_title, a Boss with its boss_name under such a Game and, when the
\* item has a video_url, a Strategy with that video_url under such a Boss.
Materialized(d, item) ==
    \E g \in 1..Len(d.game), b \in 1..Len(d.boss) :
        /\ d.game[g].title = item.game_title
        /\ d.boss[b].name = item.boss_name
        /\ d.boss[b].game_id = str(d.game[g]._id)
        /\ Truthy(item.video_url)
             => \E s \in 1..Len(d.strategy) :
                   /\ d.strategy[s].boss_id = str(d.boss[b]._id)
                   /\ d.strategy[s].video_url = item.video_url

(***************************************************************************)
(* C21: approved implies materialized.  In every reachable state every     *)
(* queue item whose status is approved has its Game, its Boss under that   *)
(* Game and, when it has a video_url, its Strategy under that Boss.        *)
(***************************************************************************)
C21_ApprovedImpliesMaterialized ==
    \A i \in 1..Len(db.ingest_queue) :
        db.ingest_queue[i].status = "approved" => Materialized(db, db.ingest_queue[i])

\* The store before the first approval of a behaviour of SpecCrash: the
\* queue with every item pending, and an empty catalog.
BeforeApproval(d) ==
    [EmptyStore EXCEPT !.ingest_queue =
        [i \in 1..Len(d.ingest_queue) |-> [d.ingest_queue[i] EXCEPT !.status = "pending"]]]

(***************************************************************************)
(* C22: crash recovery of approval.  With approvals run one at a time,     *)
(* every store call of a mod_approve in progress leaves the outcome of a   *)
(* whole mod_approve on the same item as it was, so an approval that       *)
(* stopped after any prefix of its writes and is run again ends where one  *)
(* uninterrupted run ends.  When an approval completes, the store is the   *)
(* one that a single uninterrupted mod_approve produces from the store     *)
(* before the first attempt: one Game, one Boss, one Strategy when the     *)
(* item has a video_url and none otherwise, and status approved.           *)
(***************************************************************************)
C22_CrashedApprovalRecovers ==
    [][\A c \in Clients :
          LET l == inflight[c]
          IN (l.op = "mod_approve" /\ inflight'[c] # l)
                => /\ mod_approve(db', l.req).db = mod_approve(db, l.req).db
                   /\ (/\ l.pc = "update_status"
                       /\ inflight'[c] = Idle
                       /\ FindById(db'.ingest_queue, l.item._id).status = "approved")
                        => /\ db' = mod_approve(db, l.req).db
                           /\ db' = mod_approve(BeforeApproval(db'), l.req).db
                           /\ Len(db'.game) = 1 /\ Len(db'.boss) = 1
                           /\ Len(db'.strategy) = IF Truthy(l.item.video_url) THEN 1 ELSE 0
                           /\ Materialized(db', l.item)]_vars

\* A second mod_approve is in progress and has made no write yet; the item
\* is pending and its Game is stored without a Boss: the first approval
\* stopped between its insert of the Game and its insert of the Boss.
C22_Witness ==
    /\ nreq = 2
    /\ \E c \in Clients :
          /\ inflight[c].op = "mod_approve" /\ inflight[c].pc = "find_game"
          /\ inflight[c].item.status = "pending"
          /\ inflight[c].item.boss_name = "Genichiro Ashina"
    /\ Len(db.game) = 1 /\ db.game[1].title = "Sekiro"
    /\ db.boss = <<>> /\ db.strategy = <<>>

\* The demo catalog is stored: a Game titled "Elden Ring" with the three demo
\* bosses under it and a Strategy for each of them.
DemoSeeded(d) ==
    \E g \in DemoGames(d) :
        \A k \in 1..Len(DemoBosses) :
            \E b \in 1..Len(d.boss) :
                /\ d.boss[b].name = DemoBosses[k].name
                /\ d.boss[b].game_id = str(d.game[g]._id)
                /\ \E s \in 1..Len(d.strategy) : d.strategy[s].boss_id = str(d.boss[b]._id)

(***************************************************************************)
(* C23: demo seed post-condition.  Whenever ingest_demo returns            *)
(* successfully, whatever was stored before, the store holds a Game titled *)
(* "Elden Ring" with the three demo Bosses under it and a Strategy for     *)
(* each of them.                                                           *)
(***************************************************************************)
C23_DemoSeedPostcondition ==
    [][(ret'.op = "ingest_demo" /\ StepOf(ingest_demo(db)) /\ ret'.code = 200)
          => DemoSeeded(db')]_vars

====
